---- MODULE Spec2Model ----
(***************************************************************************)
(* A model of the painting core: the layer stores (layer_store.py), the   *)
(* grid (grid.py), the undo tracker (undo.py) and the replay tracker      *)
(* (replay.py).  Each component has its own specification; the variables  *)
(* of the other components stay at their initial values.                  *)
(***************************************************************************)
EXTENDS Integers, Sequences, FiniteSets, TLC

VARIABLES
    actions,         \* UndoTracker.actions: ArrayStack, top is the last element
    undone_actions,  \* UndoTracker.undone_actions: ArrayStack, top is the last element
    grid,            \* the Grid the trackers work on: cell -> SetLayerStore state
    call,            \* the last call: its name, argument, result (a colour apart) and
                     \* what it invoked
    c1,              \* history: progress of an add_action; undo; redo sequence
    queue,           \* ReplayTracker.actions: CircularQueue, head is the first element
    start,           \* ReplayTracker.start
    hist,            \* history of the replay tracker: entries added, entries played,
                     \* start_replay seen, plays counted since the last start_replay
    layers,          \* AdditiveLayerStore.layers: CircularQueue, head is the first element
    set_store,       \* a SetLayerStore: [layer, special_effect]
    set_hist,        \* history of the SetLayerStore: the layer stored before the last
                     \* call, whether special() was called an odd number of times
    seq_layers,      \* SequenceLayerStore.seq_layers: BSet of layer.index + 1
    seq_hist,        \* history of the SequenceLayerStore: the layers applied when the
                     \* current run of special() calls began, the calls of the run,
                     \* the applied layers in the order they were added
    grid_obj         \* a Grid object: whether it was constructed, brush_size, x, y and
                     \* grid, the rows of LayerStore objects

vars == <<actions, undone_actions, grid, call, c1, queue, start, hist, layers,
          set_store, set_hist, seq_layers, seq_hist, grid_obj>>

----------------------------------------------------------------------------
(* Bounds of the model *)

\* stands for UndoTracker.capacity (10000)
UndoCapacity == 3

\* stands for ReplayTracker.capacity (10000)
ReplayCapacity == 3

\* the number of distinct PaintAction objects the client holds
NumActions == 2

\* the number of layers the registry get_layers() holds
NumLayers == 2

\* the grid's dimensions x, y
GridX == 1

GridY == 1

\* the number of add_action calls a replay history counts
MaxAdds == 4

\* stands for the 100 of AdditiveLayerStore.capacity = len(get_layers()) * 100
CapacityFactor == 1

\* the number of layers the registry holds for a SequenceLayerStore
SeqNumLayers == 4

\* the number of colours
NumColors == 12

\* the number of colours an additive store's get_color is asked to start from
NumStartColors == 3

\* the largest dimension a Grid is constructed with
MaxDim == 2

----------------------------------------------------------------------------
(* Values *)

\* Python's None; Some(v) is a value that is not None
None == <<>>

Some(v) == <<v>>

Layers == 0 .. (NumLayers - 1)

ActionIds == 1 .. NumActions

Cells == (0 .. (GridX - 1)) \X (0 .. (GridY - 1))

Colors == 0 .. (NumColors - 1)

StartColors == 0 .. (NumStartColors - 1)

\* Layer.apply(color, timestamp, x, y): an opaque colour transform, one per
\* layer; two different layers do not commute
Layer_apply(layer, color) == (2 * color + layer + 1) % NumColors

----------------------------------------------------------------------------
(* data_structures.stack_adt.ArrayStack and queue_adt.CircularQueue: bounded *)
(* containers.  push and append have the precondition "not full" and raise   *)
(* an Exception when it does not hold; the callers below that respect it     *)
(* test is_full() first.                                                     *)

Stack_is_empty(s) == Len(s) = 0

Stack_is_full(s, cap) == Len(s) >= cap

Stack_peek(s) == s[Len(s)]

Stack_pop(s) == SubSeq(s, 1, Len(s) - 1)

\* push: [stack, raised]; a full stack raises and stays as it is
Stack_push(s, cap, item) ==
    IF Stack_is_full(s, cap)
    THEN [stack |-> s, raised |-> TRUE]
    ELSE [stack |-> Append(s, item), raised |-> FALSE]

Queue_is_empty(q) == Len(q) = 0

Queue_is_full(q, cap) == Len(q) >= cap

\* append: [queue, raised]; a full queue raises and stays as it is
Queue_append(q, cap, item) ==
    IF Queue_is_full(q, cap)
    THEN [queue |-> q, raised |-> TRUE]
    ELSE [queue |-> Append(q, item), raised |-> FALSE]

\* serve: the item at the front, and the rest
Queue_front(q) == Head(q)

Queue_serve(q) == Tail(q)

----------------------------------------------------------------------------
(* SetLayerStore: [layer, special_effect] *)

SetLayerStore_init == [layer |-> None, special_effect |-> FALSE]

SetLayerStore_add_if_empty(s, layer) ==
    IF s.layer = None
    THEN [store |-> [s EXCEPT !.layer = Some(layer)], ret |-> TRUE]
    ELSE [store |-> s, ret |-> FALSE]

SetLayerStore_add(s, layer) ==
    IF s.layer # Some(layer)
    THEN [store |-> [s EXCEPT !.layer = Some(layer)], ret |-> TRUE]
    ELSE [store |-> s, ret |-> FALSE]

SetLayerStore_erase_if_equal(s, layer) ==
    IF s.layer # Some(layer)
    THEN [store |-> s, ret |-> FALSE]
    ELSE [store |-> [s EXCEPT !.layer = None], ret |-> TRUE]

SetLayerStore_erase(s, layer) ==
    IF s.layer = None
    THEN [store |-> s, ret |-> FALSE]
    ELSE [store |-> [s EXCEPT !.layer = None], ret |-> TRUE]

SetLayerStore_special_set(s) == [s EXCEPT !.special_effect = TRUE]

SetLayerStore_special(s) ==
    IF s.special_effect
    THEN [s EXCEPT !.special_effect = FALSE]
    ELSE [s EXCEPT !.special_effect = TRUE]

\* layers.invert.apply: the colour inversion
Invert_apply(color) == (NumColors - 1) - color

SetLayerStore_get_color(s, color_start) ==
    LET color == IF s.layer # None
                 THEN Layer_apply(s.layer[1], color_start)
                 ELSE color_start
    IN  IF s.special_effect THEN Invert_apply(color) ELSE color

----------------------------------------------------------------------------
(* Grid, as the trackers use it: Grid(Grid.DRAW_STYLE_SET, GridX, GridY) *)

Grid_init == [c \in Cells |-> SetLayerStore_init]

Grid_special(g) == [c \in DOMAIN g |-> SetLayerStore_special(g[c])]

----------------------------------------------------------------------------
(* PaintAction: action 1 is PaintAction([], is_special=True); every other   *)
(* action holds one PaintStep, a layer on a cell.                            *)

PaintAction_is_special(a) == a = 1

PaintAction_steps(a) ==
    IF a = 1
    THEN <<>>
    ELSE LET k == a - 2
         IN  << [pos   |-> <<k % GridX, (k \div GridX) % GridY>>,
                 layer |-> k % NumLayers] >>

RECURSIVE StepsUndo(_, _, _)
StepsUndo(steps, i, g) ==
    IF i > Len(steps)
    THEN g
    ELSE LET st == steps[i]
         IN  StepsUndo(steps, i + 1,
                 [g EXCEPT ![st.pos] = SetLayerStore_erase(g[st.pos], st.layer).store])

RECURSIVE StepsRedo(_, _, _)
StepsRedo(steps, i, g) ==
    IF i > Len(steps)
    THEN g
    ELSE LET st == steps[i]
         IN  StepsRedo(steps, i + 1,
                 [g EXCEPT ![st.pos] = SetLayerStore_add(g[st.pos], st.layer).store])

PaintAction_undo_apply(a, g) ==
    StepsUndo(PaintAction_steps(a), 1,
              IF PaintAction_is_special(a) THEN Grid_special(g) ELSE g)

PaintAction_redo_apply(a, g) ==
    StepsRedo(PaintAction_steps(a), 1,
              IF PaintAction_is_special(a) THEN Grid_special(g) ELSE g)

\* apply: the first application of the action, the effect redo_apply repeats
PaintAction_apply(a, g) == PaintAction_redo_apply(a, g)

----------------------------------------------------------------------------
(* Initial values of each component *)

NoCall ==
    [op |-> "init", arg |-> None, ret |-> None, applied |-> <<>>,
     full_push |-> FALSE, raised |-> FALSE, color |-> None]

C1Idle == [phase |-> 0, a |-> None, g |-> Grid_init, acts |-> <<>>,
           r1 |-> None, r2 |-> None]

HistInit == [addedLog |-> <<>>, playedLog |-> <<>>, started |-> FALSE,
             n |-> 0, k |-> 0, clean |-> FALSE]

UndoInit == actions = <<>> /\ undone_actions = <<>> /\ c1 = C1Idle

ReplayInit == queue = <<>> /\ start = FALSE /\ hist = HistInit

AdditiveInit == layers = <<>>

SetHistInit == [prev |-> None, odd |-> FALSE]

SetInit == set_store = SetLayerStore_init /\ set_hist = SetHistInit

SeqHistInit == [k |-> 0, run |-> 0, order |-> <<>>]

SequenceInit == seq_layers = {} /\ seq_hist = SeqHistInit

\* no Grid object yet
NoGrid == [exists |-> FALSE, brush_size |-> None, x |-> None, y |-> None, grid |-> <<>>]

GridObjInit == grid_obj = NoGrid

undoVars == <<actions, undone_actions, c1>>

replayVars == <<queue, start, hist>>

additiveVars == <<layers>>

setVars == <<set_store, set_hist>>

sequenceVars == <<seq_layers, seq_hist>>

gridVars == <<grid_obj>>

----------------------------------------------------------------------------
(* UndoTracker *)

Call(op, a, ret, applied, full, raised) ==
    [op |-> op, arg |-> a, ret |-> ret, applied |-> applied,
     full_push |-> full, raised |-> raised, color |-> None]

\* a get_color call: the start colour and the colour returned
ColorCall(color_start, color) ==
    [Call("get_color", Some(color_start), None, <<>>, FALSE, FALSE)
        EXCEPT !.color = Some(color)]

\* line 52: "if not self.actions.is_full()"
UT_add_action_guard_open(s) == TRUE

UT_add_action_guard(s) == ~Stack_is_full(s, UndoCapacity)

\* line 83: "current_action.undo_apply(grid)"
UT_undo_effect(a, g) == PaintAction_undo_apply(a, g)

\* line 117: "current_action.redo_apply(grid)"
UT_redo_effect_backward(a, g) == PaintAction_undo_apply(a, g)

UT_redo_effect(a, g) == PaintAction_redo_apply(a, g)

\* line 82: "self.actions.pop()", the stack it leaves
UT_undo_popped_kept(s) == s

UT_undo_popped(s) == Stack_pop(s)

\* line 133: "self.undone_actions.clear()", the stack it leaves
UT_reset_redo_cleared_top(s) == IF s = <<>> THEN s ELSE Stack_pop(s)

UT_reset_redo_cleared(s) == <<>>

UT_add_action(a) ==
    LET pushed == IF UT_add_action_guard(actions)
                  THEN Stack_push(actions, UndoCapacity, a)
                  ELSE [stack |-> actions, raised |-> FALSE]
    IN  /\ actions' = pushed.stack
        /\ call' = Call("add_action", Some(a), None, <<>>, FALSE, pushed.raised)
        /\ c1' = IF undone_actions = <<>> /\ ~Stack_is_full(actions, UndoCapacity)
                 THEN [phase |-> 1, a |-> Some(a), g |-> grid, acts |-> actions',
                       r1 |-> None, r2 |-> None]
                 ELSE C1Idle
        /\ UNCHANGED <<undone_actions, grid>>

UT_undo ==
    /\ IF Stack_is_empty(actions)
       THEN /\ call' = Call("undo", None, None, <<>>, FALSE, FALSE)
            /\ UNCHANGED <<actions, undone_actions, grid>>
       ELSE LET current_action == Stack_peek(actions)
                pushed == Stack_push(undone_actions, UndoCapacity, current_action)
            IN  /\ actions' = UT_undo_popped(actions)
                /\ grid' = UT_undo_effect(current_action, grid)
                /\ undone_actions' = pushed.stack
                /\ call' = Call("undo", None,
                              IF pushed.raised THEN None ELSE Some(current_action),
                              << <<"undo_apply", current_action>> >>,
                              Stack_is_full(undone_actions, UndoCapacity),
                              pushed.raised)
    /\ c1' = IF c1.phase = 1
             THEN [c1 EXCEPT !.phase = 2, !.r1 = call'.ret]
             ELSE C1Idle

UT_redo ==
    /\ IF Stack_is_empty(undone_actions)
       THEN /\ call' = Call("redo", None, None, <<>>, FALSE, FALSE)
            /\ UNCHANGED <<actions, undone_actions, grid>>
       ELSE LET current_action == Stack_peek(undone_actions)
                pushed == Stack_push(actions, UndoCapacity, current_action)
            IN  /\ undone_actions' = Stack_pop(undone_actions)
                /\ grid' = UT_redo_effect(current_action, grid)
                /\ actions' = pushed.stack
                /\ call' = Call("redo", None,
                              IF pushed.raised THEN None ELSE Some(current_action),
                              << <<"redo_apply", current_action>> >>,
                              Stack_is_full(actions, UndoCapacity),
                              pushed.raised)
    /\ c1' = IF c1.phase = 2
             THEN [c1 EXCEPT !.phase = 3, !.r2 = call'.ret]
             ELSE C1Idle

UT_reset_redo ==
    /\ undone_actions' = UT_reset_redo_cleared(undone_actions)
    /\ call' = Call("reset_redo", None, None, <<>>, FALSE, FALSE)
    /\ c1' = C1Idle
    /\ UNCHANGED <<actions, grid>>

\* the client applies a PaintAction to the grid (before it records it)
Client_apply(a) ==
    /\ grid' = PaintAction_apply(a, grid)
    /\ call' = Call("apply", Some(a), None, << <<"apply", a>> >>, FALSE, FALSE)
    /\ c1' = C1Idle
    /\ UNCHANGED <<actions, undone_actions>>

Undo_client_apply == \E a \in ActionIds : Client_apply(a) /\ UNCHANGED <<replayVars, additiveVars, setVars, sequenceVars, gridVars>>

Undo_add_action == \E a \in ActionIds : UT_add_action(a) /\ UNCHANGED <<replayVars, additiveVars, setVars, sequenceVars, gridVars>>

Undo_undo == UT_undo /\ UNCHANGED <<replayVars, additiveVars, setVars, sequenceVars, gridVars>>

Undo_redo == UT_redo /\ UNCHANGED <<replayVars, additiveVars, setVars, sequenceVars, gridVars>>

Undo_reset_redo == UT_reset_redo /\ UNCHANGED <<replayVars, additiveVars, setVars, sequenceVars, gridVars>>

InitUndo ==
    /\ UndoInit /\ ReplayInit /\ AdditiveInit /\ SetInit /\ SequenceInit /\ GridObjInit
    /\ grid = Grid_init
    /\ call = NoCall

NextUndo == Undo_client_apply \/ Undo_add_action \/ Undo_undo \/ Undo_redo \/ Undo_reset_redo

SpecUndo == InitUndo /\ [][NextUndo]_vars

----------------------------------------------------------------------------
(* Claims about UndoTracker *)

\* undo_apply of action a exactly reverses its redo_apply on grid g
Reverses(a, g) == PaintAction_redo_apply(a, PaintAction_undo_apply(a, g)) = g

\* C1: for an action a whose undo_apply exactly reverses its redo_apply on
\* the grid g it was applied to, add_action(a); undo(g); redo(g) on a tracker
\* with nothing undone leaves the grid as g, a back on top of actions (the
\* stack as it was after add_action), undone_actions empty, and both undo
\* and redo return a.
C1_UndoRedoIdentity ==
    (c1.phase = 3 /\ Reverses(c1.a[1], c1.g)) =>
        /\ grid = c1.g
        /\ actions = c1.acts
        /\ Stack_peek(actions) = c1.a[1]
        /\ undone_actions = <<>>
        /\ c1.r1 = c1.a
        /\ c1.r2 = c1.a

\* the sequence has run for a drawing action whose undo changes the grid
C1_Witness ==
    /\ c1.phase = 3
    /\ Reverses(c1.a[1], c1.g)
    /\ ~PaintAction_is_special(c1.a[1])
    /\ PaintAction_undo_apply(c1.a[1], c1.g) # c1.g

\* C2: no call pushes onto a stack that already holds capacity entries.
C2_NoPushOnFullStack == ~call.full_push

\* C3: add_action on a full actions stack drops the action: no error, both
\* stacks unchanged; below capacity it pushes; actions never exceeds capacity.
C3_AddActionDropsAtCapacity ==
    [][ /\ Len(actions') <= UndoCapacity
        /\ (call'.op = "add_action") =>
              /\ ~call'.raised
              /\ undone_actions' = undone_actions
              /\ IF Len(actions) >= UndoCapacity
                 THEN actions' = actions
                 ELSE actions' = Append(actions, call'.arg[1]) ]_vars

\* an add_action was dropped: the stack is full and its top is another action
C3_Witness ==
    /\ call.op = "add_action"
    /\ Len(actions) = UndoCapacity
    /\ Stack_peek(actions) # call.arg[1]

\* C4: undo and redo are atomic: either None is returned and stacks and grid
\* are unchanged, or one action's effect is applied and that action moves
\* from one stack to the other, the two stacks holding as many as before.
C4_UndoRedoAtomic ==
    [][ (call'.op \in {"undo", "redo"}) =>
          \/ /\ call'.ret = None
             /\ call'.applied = <<>>
             /\ UNCHANGED <<actions, undone_actions, grid>>
          \/ /\ call'.ret # None
             /\ Len(call'.applied) = 1
             /\ Len(actions') + Len(undone_actions') = Len(actions) + Len(undone_actions)
             /\ IF call'.op = "undo"
                THEN /\ actions' = Stack_pop(actions)
                     /\ undone_actions' = Append(undone_actions, call'.ret[1])
                ELSE /\ undone_actions' = Stack_pop(undone_actions)
                     /\ actions' = Append(actions, call'.ret[1]) ]_vars

----------------------------------------------------------------------------
(* ReplayTracker *)

\* line 71: "if not self.start"
RT_not_started_never(s) == FALSE

RT_not_started(s) == ~s

\* line 76: "self.start = False", the flag once the queue is found empty
RT_drained_start_kept == TRUE

RT_drained_start == FALSE

\* line 80: "self.actions.serve()", the entry served and the queue left
RT_served_last(q) == [entry |-> q[Len(q)], rest |-> SubSeq(q, 1, Len(q) - 1)]

RT_served(q) == [entry |-> Queue_front(q), rest |-> Queue_serve(q)]

\* lines 83-88: undo_apply if the entry is an undo, redo_apply otherwise
RT_play_effect(entry, g) ==
    IF entry[2]
    THEN [grid |-> PaintAction_undo_apply(entry[1], g), applied |-> <<"undo_apply", entry[1]>>]
    ELSE [grid |-> PaintAction_redo_apply(entry[1], g), applied |-> <<"redo_apply", entry[1]>>]

\* line 90: "return False" after an entry was played
RT_played_ret_true == TRUE

RT_played_ret == FALSE

RT_start_replay ==
    /\ start' = TRUE
    /\ call' = Call("start_replay", None, None, <<>>, FALSE, FALSE)
    /\ hist' = [hist EXCEPT !.started = TRUE, !.n = Len(queue), !.k = 0, !.clean = TRUE]
    /\ UNCHANGED <<queue, grid>>

RT_add_action(action, is_undo) ==
    LET appended == Queue_append(queue, ReplayCapacity, <<action, is_undo>>)
    IN  /\ Len(hist.addedLog) < MaxAdds
        /\ queue' = appended.queue
        /\ call' = Call("add_action", Some(<<action, is_undo>>), None, <<>>,
                        Queue_is_full(queue, ReplayCapacity), appended.raised)
        /\ hist' = [hist EXCEPT
                       !.addedLog = IF appended.raised THEN @ ELSE Append(@, <<action, is_undo>>),
                       !.clean = FALSE]
        /\ UNCHANGED <<start, grid>>

RT_play_next_action ==
    /\ IF RT_not_started(start)
       THEN /\ call' = Call("play_next_action", None, Some(TRUE), <<>>, FALSE, FALSE)
            /\ UNCHANGED <<queue, start, grid>>
            /\ hist' = [hist EXCEPT !.clean = FALSE]
       ELSE IF Queue_is_empty(queue)
       THEN /\ start' = RT_drained_start
            /\ call' = Call("play_next_action", None, Some(TRUE), <<>>, FALSE, FALSE)
            /\ UNCHANGED <<queue, grid>>
            /\ hist' = [hist EXCEPT !.k = IF @ <= hist.n THEN @ + 1 ELSE @,
                                    !.clean = hist.clean /\ hist.k <= hist.n]
       ELSE LET served == RT_served(queue)
                effect == RT_play_effect(served.entry, grid)
            IN  /\ queue' = served.rest
                /\ grid' = effect.grid
                /\ call' = Call("play_next_action", None, Some(RT_played_ret),
                                << effect.applied >>, FALSE, FALSE)
                /\ hist' = [hist EXCEPT !.playedLog = Append(@, effect.applied),
                                        !.k = IF @ <= hist.n THEN @ + 1 ELSE @,
                                        !.clean = hist.clean /\ hist.k <= hist.n]
                /\ UNCHANGED start

Replay_start_replay == RT_start_replay /\ UNCHANGED <<undoVars, additiveVars, setVars, sequenceVars, gridVars>>

Replay_add_action ==
    \E a \in ActionIds, is_undo \in BOOLEAN :
        RT_add_action(a, is_undo) /\ UNCHANGED <<undoVars, additiveVars, setVars, sequenceVars, gridVars>>

Replay_play_next_action == RT_play_next_action /\ UNCHANGED <<undoVars, additiveVars, setVars, sequenceVars, gridVars>>

InitReplay ==
    /\ UndoInit /\ ReplayInit /\ AdditiveInit /\ SetInit /\ SequenceInit /\ GridObjInit
    /\ grid = Grid_init
    /\ call = NoCall

NextReplay == Replay_start_replay \/ Replay_add_action \/ Replay_play_next_action

SpecReplay == InitReplay /\ [][NextReplay]_vars

----------------------------------------------------------------------------
(* Claims about ReplayTracker *)

\* what playing the entry <<action, is_undo>> invokes on the grid
PlayOf(entry) == <<IF entry[2] THEN "undo_apply" ELSE "redo_apply", entry[1]>>

\* C5: play_next_action returns False exactly when replaying is true and the
\* queue is non-empty, and then removes one entry and invokes one of
\* undo_apply/redo_apply; otherwise it returns True, removes and applies
\* nothing, and with replaying true and the queue empty sets replaying false.
C5_PlayNextAction ==
    [][ (call'.op = "play_next_action") =>
          IF start /\ queue # <<>>
          THEN /\ call'.ret = Some(FALSE)
               /\ queue' = Tail(queue)
               /\ Len(call'.applied) = 1
               /\ call'.applied[1][1] \in {"undo_apply", "redo_apply"}
               /\ start' = start
          ELSE /\ call'.ret = Some(TRUE)
               /\ queue' = queue
               /\ call'.applied = <<>>
               /\ grid' = grid
               /\ start' = FALSE ]_vars

\* a play that found the queue empty while replaying
C5_Witness ==
    /\ call.op = "play_next_action"
    /\ call.ret = Some(TRUE)
    /\ hist.started /\ hist.k = hist.n + 1
    /\ ~start
    /\ hist.playedLog # <<>>

\* C6: the i-th played entry is the i-th added entry, played with undo_apply
\* when its is_undo flag is true and redo_apply otherwise, and the queue
\* holds exactly the added entries not yet played, in the order added.
C6_ReplayFifo ==
    /\ Len(hist.playedLog) <= Len(hist.addedLog)
    /\ \A i \in 1 .. Len(hist.playedLog) : hist.playedLog[i] = PlayOf(hist.addedLog[i])
    /\ queue = SubSeq(hist.addedLog, Len(hist.playedLog) + 1, Len(hist.addedLog))

\* two different entries, an undo and a redo, were played in the order added
C6_Witness ==
    /\ Len(hist.playedLog) >= 2
    /\ hist.addedLog[1] # hist.addedLog[2]
    /\ hist.playedLog[1][1] = "undo_apply"
    /\ hist.playedLog[2][1] = "redo_apply"
    /\ queue # <<>>

\* C7: after start_replay on n recorded entries and no further add_action,
\* plays 1..n return False and play n+1 returns True, leaving the queue empty
\* and replaying false.
C7_ReplayFinishes ==
    (call.op = "play_next_action" /\ hist.clean /\ hist.k >= 1) =>
        IF hist.k <= hist.n
        THEN /\ call.ret = Some(FALSE)
             /\ Len(queue) = hist.n - hist.k
             /\ start
        ELSE /\ call.ret = Some(TRUE)
             /\ queue = <<>>
             /\ ~start

\* the tested case: three entries, the fourth play returned True
C7_Witness ==
    /\ call.op = "play_next_action"
    /\ hist.clean
    /\ hist.n = 3
    /\ hist.k = 4
    /\ call.ret = Some(TRUE)

\* C8: add_action on a full queue fails silently: no error, queue and
\* replaying unchanged, and the queue never holds more than capacity.
C8_AddActionSilentAtCapacity ==
    [][ /\ Len(queue') <= ReplayCapacity
        /\ (call'.op = "add_action" /\ Len(queue) >= ReplayCapacity) =>
              /\ ~call'.raised
              /\ queue' = queue
              /\ start' = start ]_vars

\* C9: before any start_replay, play_next_action returns True, dequeues
\* nothing, applies nothing and leaves replaying false.
C9_NoPlayBeforeStart ==
    [][ (call'.op = "play_next_action" /\ ~hist.started) =>
          /\ call'.ret = Some(TRUE)
          /\ queue' = queue
          /\ grid' = grid
          /\ call'.applied = <<>>
          /\ start' = FALSE ]_vars

\* a play on a never-started tracker that holds entries
C9_Witness ==
    /\ call.op = "play_next_action"
    /\ ~hist.started
    /\ queue # <<>>

----------------------------------------------------------------------------
(* AdditiveLayerStore *)

\* len(get_layers()): the registry array, the registered layers and one
\* unused slot after them
Registry_len == NumLayers + 1

\* line 208: self.capacity = len(get_layers()) * 100
ALS_capacity == Registry_len * CapacityFactor

\* line 232: "if self.layers.is_full()"
ALS_add_full_never(q) == FALSE

ALS_add_full(q) == Queue_is_full(q, ALS_capacity)

ALS_add(layer) ==
    IF ALS_add_full(layers)
    THEN /\ call' = Call("add", Some(layer), Some(FALSE), <<>>, FALSE, FALSE)
         /\ UNCHANGED layers
    ELSE LET appended == Queue_append(layers, ALS_capacity, layer)
         IN  /\ layers' = appended.queue
             /\ call' = Call("add", Some(layer), Some(TRUE), <<>>, FALSE, appended.raised)

\* lines 270-273: serve an item, apply it, append it again, `iteration` times
RECURSIVE ALS_rotate_tail_first(_, _, _)
ALS_rotate_tail_first(q, color, iteration) ==
    IF iteration = 0
    THEN [queue |-> q, color |-> color]
    ELSE LET item == q[Len(q)]
         IN  ALS_rotate_tail_first(<<item>> \o SubSeq(q, 1, Len(q) - 1),
                                   Layer_apply(item, color), iteration - 1)

RECURSIVE ALS_rotate(_, _, _)
ALS_rotate(q, color, iteration) ==
    IF iteration = 0
    THEN [queue |-> q, color |-> color]
    ELSE LET item == Queue_front(q)
         IN  ALS_rotate(Queue_append(Queue_serve(q), ALS_capacity, item).queue,
                        Layer_apply(item, color), iteration - 1)

ALS_get_color(color_start) ==
    LET done == IF ~Queue_is_empty(layers)
                THEN ALS_rotate(layers, color_start, Len(layers))
                ELSE [queue |-> layers, color |-> color_start]
    IN  /\ layers' = done.queue
        /\ call' = ColorCall(color_start, done.color)

\* line 297: "self.layers.serve()", the queue it leaves
ALS_erase_served_last(q) == SubSeq(q, 1, Len(q) - 1)

ALS_erase_served(q) == Queue_serve(q)

\* line 297: "not self.layers.is_empty() and self.layers.serve() != layer"
ALS_erase(layer) ==
    IF ~Queue_is_empty(layers)
    THEN /\ layers' = ALS_erase_served(layers)
         /\ call' = Call("erase", Some(layer), Some(Queue_front(layers) # layer),
                         <<>>, FALSE, FALSE)
    ELSE /\ call' = Call("erase", Some(layer), Some(FALSE), <<>>, FALSE, FALSE)
         /\ UNCHANGED layers

\* lines 320-321: serve every layer and push it onto the temporary stack
RECURSIVE ALS_to_stack(_, _)
ALS_to_stack(q, stack) ==
    IF Queue_is_empty(q)
    THEN stack
    ELSE ALS_to_stack(Queue_serve(q), Stack_push(stack, Len(q) + Len(stack), Queue_front(q)).stack)

\* lines 324-325: pop every layer and append it to the queue
RECURSIVE ALS_from_stack(_, _)
ALS_from_stack(stack, q) ==
    IF Stack_is_empty(stack)
    THEN q
    ELSE ALS_from_stack(Stack_pop(stack), Queue_append(q, ALS_capacity, Stack_peek(stack)).queue)

\* lines 316-325: the queue special() leaves
ALS_special_result_rotated(q) == IF q = <<>> THEN q ELSE Append(Tail(q), Head(q))

ALS_special_result(q) == ALS_from_stack(ALS_to_stack(q, <<>>), <<>>)

ALS_special ==
    /\ layers' = ALS_special_result(layers)
    /\ call' = Call("special", None, None, <<>>, FALSE, FALSE)

Additive_add == \E layer \in Layers : ALS_add(layer) /\ UNCHANGED <<undoVars, replayVars, setVars, sequenceVars, gridVars, grid>>

Additive_get_color ==
    \E color_start \in StartColors : ALS_get_color(color_start) /\ UNCHANGED <<undoVars, replayVars, setVars, sequenceVars, gridVars, grid>>

Additive_erase == \E layer \in Layers : ALS_erase(layer) /\ UNCHANGED <<undoVars, replayVars, setVars, sequenceVars, gridVars, grid>>

Additive_special == ALS_special /\ UNCHANGED <<undoVars, replayVars, setVars, sequenceVars, gridVars, grid>>

InitAdditive ==
    /\ UndoInit /\ ReplayInit /\ AdditiveInit /\ SetInit /\ SequenceInit /\ GridObjInit
    /\ grid = Grid_init
    /\ call = NoCall

NextAdditive == Additive_add \/ Additive_get_color \/ Additive_erase \/ Additive_special

SpecAdditive == InitAdditive /\ [][NextAdditive]_vars

----------------------------------------------------------------------------
(* Claims about AdditiveLayerStore *)

\* C10: erase returns False if and only if the queue was empty before the
\* call; on a non-empty queue it returns True for every argument layer.
C10_EraseReturnsFalseIffEmpty ==
    [][ (call'.op = "erase") =>
          ((call'.ret = Some(FALSE)) <=> (layers = <<>>)) ]_vars

\* C11: erase on a non-empty queue removes exactly the head, for every
\* argument layer, and leaves the other entries in their order; on an empty
\* queue it leaves the queue empty.
C11_EraseRemovesHead ==
    [][ (call'.op = "erase") =>
          IF layers = <<>>
          THEN layers' = <<>>
          ELSE layers' = SubSeq(layers, 2, Len(layers)) ]_vars

\* an erase left two different layers: the head went, whatever the argument
C11_Witness ==
    /\ call.op = "erase"
    /\ Len(layers) >= 2
    /\ layers[1] # layers[2]
    /\ call.arg # Some(layers[2])

\* C12: add appends the layer at the tail and returns True, duplicates
\* included, unless the queue holds capacity entries: then it returns False
\* and changes nothing.  Capacity is the factor times the registry's size and
\* the queue never holds more.
C12_AddAppendsUnlessFull ==
    [][ /\ ALS_capacity = CapacityFactor * Registry_len
        /\ Len(layers') <= ALS_capacity
        /\ (call'.op = "add") =>
              /\ ~call'.raised
              /\ IF Len(layers) >= ALS_capacity
                 THEN call'.ret = Some(FALSE) /\ layers' = layers
                 ELSE call'.ret = Some(TRUE) /\ layers' = Append(layers, call'.arg[1]) ]_vars

\* an add was refused on a full queue that holds a layer more than once
C12_Witness ==
    /\ call.op = "add"
    /\ call.ret = Some(FALSE)
    /\ Len(layers) = ALS_capacity
    /\ \E i, j \in 1 .. Len(layers) : i # j /\ layers[i] = layers[j]

\* the layers of q applied to a colour from head to tail
RECURSIVE FoldHeadToTail(_, _)
FoldHeadToTail(q, color) ==
    IF q = <<>>
    THEN color
    ELSE Layer_apply(q[Len(q)], FoldHeadToTail(SubSeq(q, 1, Len(q) - 1), color))

Reversed(q) == [i \in 1 .. Len(q) |-> q[Len(q) + 1 - i]]

\* C13: get_color applies the queued layers to the start colour from head to
\* tail and leaves the queue as it was, for every length up to capacity.
C13_GetColorFoldsAndKeepsQueue ==
    [][ (call'.op = "get_color") =>
          /\ ~call'.raised
          /\ layers' = layers
          /\ call'.color = Some(FoldHeadToTail(layers, call'.arg[1])) ]_vars

\* get_color on a full queue whose order matters for the colour returned
C13_Witness ==
    /\ call.op = "get_color"
    /\ Len(layers) = ALS_capacity
    /\ call.color # Some(FoldHeadToTail(Reversed(layers), call.arg[1]))

\* C14: special reverses the order of the queue without adding or removing
\* a layer; special twice gives the queue back, and so the same colours.
C14_SpecialReverses ==
    [][ (call'.op = "special") =>
          /\ Len(layers') = Len(layers)
          /\ \A i \in 1 .. Len(layers) : layers'[i] = layers[Len(layers) + 1 - i]
          /\ \A twice \in {ALS_special_result(layers')} :
                /\ twice = layers
                /\ \A c \in Colors : FoldHeadToTail(twice, c) = FoldHeadToTail(layers, c) ]_vars

\* special on a full queue that its reversal changes, colour included
C14_Witness ==
    /\ call.op = "special"
    /\ Len(layers) = ALS_capacity
    /\ ALS_special_result(layers) # layers
    /\ \E c \in Colors :
          FoldHeadToTail(ALS_special_result(layers), c) # FoldHeadToTail(layers, c)

----------------------------------------------------------------------------
(* SetLayerStore, one store on its own *)

Set_add(layer) ==
    LET added == SetLayerStore_add(set_store, layer)
    IN  /\ set_store' = added.store
        /\ call' = Call("add", Some(layer), Some(added.ret), <<>>, FALSE, FALSE)
        /\ set_hist' = [set_hist EXCEPT !.prev = set_store.layer]

Set_get_color(color_start) ==
    /\ call' = ColorCall(color_start, SetLayerStore_get_color(set_store, color_start))
    /\ set_hist' = [set_hist EXCEPT !.prev = set_store.layer]
    /\ UNCHANGED set_store

Set_erase(layer) ==
    LET erased == SetLayerStore_erase(set_store, layer)
    IN  /\ set_store' = erased.store
        /\ call' = Call("erase", Some(layer), Some(erased.ret), <<>>, FALSE, FALSE)
        /\ set_hist' = [set_hist EXCEPT !.prev = set_store.layer]

Set_special ==
    /\ set_store' = SetLayerStore_special(set_store)
    /\ call' = Call("special", None, None, <<>>, FALSE, FALSE)
    /\ set_hist' = [prev |-> set_store.layer, odd |-> ~set_hist.odd]

SetStore_add ==
    \E layer \in Layers :
        Set_add(layer) /\ UNCHANGED <<undoVars, replayVars, additiveVars, sequenceVars, gridVars, grid>>

SetStore_get_color ==
    \E color_start \in Colors :
        Set_get_color(color_start) /\ UNCHANGED <<undoVars, replayVars, additiveVars, sequenceVars, gridVars, grid>>

SetStore_erase ==
    \E layer \in Layers :
        Set_erase(layer) /\ UNCHANGED <<undoVars, replayVars, additiveVars, sequenceVars, gridVars, grid>>

SetStore_special ==
    Set_special /\ UNCHANGED <<undoVars, replayVars, additiveVars, sequenceVars, gridVars, grid>>

InitSet ==
    /\ UndoInit /\ ReplayInit /\ AdditiveInit /\ SetInit /\ SequenceInit /\ GridObjInit
    /\ grid = Grid_init
    /\ call = NoCall

NextSet == SetStore_add \/ SetStore_get_color \/ SetStore_erase \/ SetStore_special

SpecSet == InitSet /\ [][NextSet]_vars

----------------------------------------------------------------------------
(* Claims about SetLayerStore *)

\* C15: erase clears the stored layer whichever layer is passed and returns
\* True if and only if a layer was stored; so add(L); erase(M) on an empty
\* store gives the empty store back, whose get_color returns the start colour
\* when the store is not inverted.
C15_EraseClears ==
    [][ (call'.op = "erase") =>
          /\ set_store'.layer = None
          /\ set_store'.special_effect = set_store.special_effect
          /\ call'.ret = Some(set_store.layer # None)
          /\ ~set_store'.special_effect =>
                \A c \in Colors : SetLayerStore_get_color(set_store', c) = c ]_vars

\* an erase(M) cleared a stored layer L other than M, in a store not inverted
C15_Witness ==
    /\ call.op = "erase"
    /\ call.ret = Some(TRUE)
    /\ set_hist.prev # None
    /\ set_hist.prev # call.arg
    /\ set_store = SetLayerStore_init

\* C16: add returns False and changes nothing exactly when the incoming
\* layer equals the stored one; otherwise it stores the incoming layer and
\* returns True; after an add the stored layer is the one passed.
C16_AddReplaces ==
    [][ (call'.op = "add") =>
          /\ set_store'.layer = call'.arg
          /\ set_store'.special_effect = set_store.special_effect
          /\ IF set_store.layer = call'.arg
             THEN call'.ret = Some(FALSE) /\ set_store' = set_store
             ELSE call'.ret = Some(TRUE) ]_vars

\* an add replaced another stored layer
C16_Witness ==
    /\ call.op = "add"
    /\ call.ret = Some(TRUE)
    /\ set_hist.prev # None
    /\ set_hist.prev # call.arg
    /\ set_store.layer = call.arg

\* C17: special flips the invert flag and keeps the stored layer; add, erase
\* and get_color keep the flag; the flag is true exactly when special has
\* been called an odd number of times.
C17_InvertIndependent ==
    [][ /\ set_store'.special_effect = set_hist'.odd
        /\ (call'.op = "special") =>
              /\ set_store'.layer = set_store.layer
              /\ set_store'.special_effect = ~set_store.special_effect
        /\ (call'.op \in {"add", "erase", "get_color"}) =>
              set_store'.special_effect = set_store.special_effect ]_vars

\* special was called an even number of times, at least twice, on a stored layer
C17_Witness ==
    /\ call.op = "special"
    /\ ~set_hist.odd
    /\ ~set_store.special_effect
    /\ set_store.layer # None

----------------------------------------------------------------------------
(* SequenceLayerStore *)

\* get_layers(): a fixed-size array of the registered layers, the unused
\* slots after them None; the layer in slot i has index i
Seq_get_layers == [i \in 0 .. SeqNumLayers |-> IF i < SeqNumLayers THEN Some(i) ELSE None]

\* Layer.name, as its rank in lexicographic order: the names do not follow
\* the order of the indices (odd indices first, then even ones)
Layer_name(i) == IF i % 2 = 1 THEN i \div 2 ELSE (SeqNumLayers \div 2) + (i \div 2)

\* lines 363-368: count the layers up to the first None
RECURSIVE SLS_count(_, _)
SLS_count(registry, i) ==
    IF i \in DOMAIN registry /\ registry[i] # None
    THEN SLS_count(registry, i + 1)
    ELSE i

SLS_capacity == SLS_count(Seq_get_layers, 0)

\* BSet: a set of positive integers
BSet_contains(set, item) == item \in set

BSet_add(set, item) == set \cup {item}

BSet_remove(set, item) == set \ {item}

BSet_is_empty(set) == set = {}

\* ArraySortedList.add: the items stay in ascending order of key
SortedList_add(list, item) ==
    LET before == Cardinality({j \in 1 .. Len(list) : list[j].key <= item.key})
    IN  SubSeq(list, 1, before) \o <<item>> \o SubSeq(list, before + 1, Len(list))

SequenceLayerStore_add_always(set, index) ==
    [set |-> BSet_add(set, index + 1), ret |-> TRUE]

SequenceLayerStore_add(set, index) ==
    IF ~BSet_contains(set, index + 1)
    THEN [set |-> BSet_add(set, index + 1), ret |-> TRUE]
    ELSE [set |-> set, ret |-> FALSE]

SequenceLayerStore_erase_kept(set, index) ==
    IF BSet_contains(set, index + 1)
    THEN [set |-> set, ret |-> TRUE]
    ELSE [set |-> set, ret |-> FALSE]

SequenceLayerStore_erase(set, index) ==
    IF BSet_contains(set, index + 1)
    THEN [set |-> BSet_remove(set, index + 1), ret |-> TRUE]
    ELSE [set |-> set, ret |-> FALSE]

\* lines 426-428: apply the applied layers, for i in range(capacity)
RECURSIVE SLS_apply_descending(_, _, _)
SLS_apply_descending(set, color, i) ==
    IF i >= SLS_capacity
    THEN color
    ELSE LET j == SLS_capacity - 1 - i
         IN  SLS_apply_descending(set,
                 IF BSet_contains(set, j + 1)
                 THEN Layer_apply(Seq_get_layers[j][1], color)
                 ELSE color,
                 i + 1)

RECURSIVE SLS_apply_from(_, _, _)
SLS_apply_from(set, color, i) ==
    IF i >= SLS_capacity
    THEN color
    ELSE SLS_apply_from(set,
             IF BSet_contains(set, i + 1)
             THEN Layer_apply(Seq_get_layers[i][1], color)
             ELSE color,
             i + 1)

SequenceLayerStore_get_color(set, color_start) ==
    IF ~BSet_is_empty(set)
    THEN SLS_apply_from(set, color_start, 0)
    ELSE color_start

\* lines 480-482: the applied layers as ListItem(layer, name), sorted by name
RECURSIVE SLS_lexi_layers(_, _, _)
SLS_lexi_layers(set, list, i) ==
    IF i >= SLS_capacity
    THEN list
    ELSE SLS_lexi_layers(set,
             IF BSet_contains(set, i + 1)
             THEN SortedList_add(list, [value |-> Seq_get_layers[i][1],
                                        key   |-> Layer_name(Seq_get_layers[i][1])])
             ELSE list,
             i + 1)

\* lines 485-488: the position of the median, from 0
SLS_median_upper(n) == n \div 2

SLS_median(n) == IF n % 2 = 0 THEN n \div 2 - 1 ELSE n \div 2

SequenceLayerStore_special(set) ==
    IF ~BSet_is_empty(set)
    THEN LET lexi_layers == SLS_lexi_layers(set, <<>>, 0)
             median == SLS_median(Len(lexi_layers))
         IN  SequenceLayerStore_erase(set, lexi_layers[median + 1].value).set
    ELSE set

\* the applied layers in the order added, for the layers still applied
SeqOrder(order, set) == SelectSeq(order, LAMBDA i : (i + 1) \in set)

Seq_add(layer) ==
    LET added == SequenceLayerStore_add(seq_layers, layer)
    IN  /\ seq_layers' = added.set
        /\ call' = Call("add", Some(layer), Some(added.ret), <<>>, FALSE, FALSE)
        /\ seq_hist' = [k |-> 0, run |-> 0,
                        order |-> IF added.ret THEN Append(seq_hist.order, layer)
                                  ELSE seq_hist.order]

Seq_get_color(color_start) ==
    /\ call' = ColorCall(color_start, SequenceLayerStore_get_color(seq_layers, color_start))
    /\ seq_hist' = [seq_hist EXCEPT !.k = 0, !.run = 0]
    /\ UNCHANGED seq_layers

Seq_erase(layer) ==
    LET erased == SequenceLayerStore_erase(seq_layers, layer)
    IN  /\ seq_layers' = erased.set
        /\ call' = Call("erase", Some(layer), Some(erased.ret), <<>>, FALSE, FALSE)
        /\ seq_hist' = [k |-> 0, run |-> 0, order |-> SeqOrder(seq_hist.order, erased.set)]

Seq_special ==
    /\ seq_layers' = SequenceLayerStore_special(seq_layers)
    /\ call' = Call("special", None, None, <<>>, FALSE, FALSE)
    /\ seq_hist' = [k     |-> IF seq_hist.run = 0 THEN Cardinality(seq_layers) ELSE seq_hist.k,
                    run   |-> IF seq_hist.run = 0 THEN 1
                              ELSE IF seq_hist.run <= seq_hist.k THEN seq_hist.run + 1
                              ELSE seq_hist.run,
                    order |-> SeqOrder(seq_hist.order, seq_layers')]

Sequence_add ==
    \E layer \in 0 .. (SLS_capacity - 1) :
        Seq_add(layer) /\ UNCHANGED <<undoVars, replayVars, additiveVars, setVars, gridVars, grid>>

Sequence_get_color ==
    \E color_start \in Colors :
        Seq_get_color(color_start) /\ UNCHANGED <<undoVars, replayVars, additiveVars, setVars, gridVars, grid>>

Sequence_erase ==
    \E layer \in 0 .. (SLS_capacity - 1) :
        Seq_erase(layer) /\ UNCHANGED <<undoVars, replayVars, additiveVars, setVars, gridVars, grid>>

Sequence_special ==
    Seq_special /\ UNCHANGED <<undoVars, replayVars, additiveVars, setVars, gridVars, grid>>

InitSequence ==
    /\ UndoInit /\ ReplayInit /\ AdditiveInit /\ SetInit /\ SequenceInit /\ GridObjInit
    /\ grid = Grid_init
    /\ call = NoCall

NextSequence == Sequence_add \/ Sequence_get_color \/ Sequence_erase \/ Sequence_special

SpecSequence == InitSequence /\ [][NextSequence]_vars

----------------------------------------------------------------------------
(* Claims about SequenceLayerStore *)

\* the indices of the applied layers
Applied(set) == {i \in 0 .. (SeqNumLayers - 1) : (i + 1) \in set}

\* the applied layer with exactly p applied layers of a smaller name
AtNamePosition(set, p) ==
    CHOOSE i \in Applied(set) :
        Cardinality({j \in Applied(set) : Layer_name(j) < Layer_name(i)}) = p

\* C18: special with k >= 1 applied layers erases exactly the layer at
\* position (k-1) div 2, from 0, of the applied layers sorted by name, and
\* keeps every other layer; with no layer applied it changes nothing.
C18_SpecialErasesMedianName ==
    [][ (call'.op = "special") =>
          IF seq_layers = {}
          THEN seq_layers' = {}
          ELSE seq_layers' = seq_layers \
                   {AtNamePosition(seq_layers, (Cardinality(seq_layers) - 1) \div 2) + 1} ]_vars

\* special on an even number of layers, four or more, erased one of them
C18_Witness ==
    /\ call.op = "special"
    /\ seq_hist.run = 1
    /\ seq_hist.k >= 4
    /\ seq_hist.k % 2 = 0
    /\ Cardinality(seq_layers) = seq_hist.k - 1

\* C19: every special call on a store that is not empty removes exactly one
\* applied layer and adds none, so a run of special calls begun with k layers
\* leaves k - n layers after n <= k calls and the empty store afterwards.
C19_SpecialRunEmpties ==
    [][ /\ (call'.op = "special") =>
              /\ seq_layers' \subseteq seq_layers
              /\ Cardinality(seq_layers') =
                     IF seq_layers = {} THEN 0 ELSE Cardinality(seq_layers) - 1
        /\ (seq_hist'.run >= 1) =>
              Cardinality(seq_layers') =
                  IF seq_hist'.run <= seq_hist'.k THEN seq_hist'.k - seq_hist'.run ELSE 0 ]_vars

\* a run begun with every layer applied went one call past the empty store
C19_Witness ==
    /\ call.op = "special"
    /\ seq_hist.k = SeqNumLayers
    /\ seq_hist.run = seq_hist.k + 1
    /\ seq_layers = {}

\* the applied layers of a set applied to a colour in ascending index order
RECURSIVE FoldAscending(_, _)
FoldAscending(set, color) ==
    IF set = {}
    THEN color
    ELSE LET m == CHOOSE x \in set : \A y \in set : y <= x
         IN  Layer_apply(m - 1, FoldAscending(set \ {m}, color))

\* the layers of a sequence applied to a colour, first to last
RECURSIVE FoldInOrder(_, _)
FoldInOrder(order, color) ==
    IF order = <<>>
    THEN color
    ELSE Layer_apply(order[Len(order)], FoldInOrder(SubSeq(order, 1, Len(order) - 1), color))

\* C20: get_color applies the applied layers in ascending index order,
\* whatever the order of the add and erase calls that applied them, and
\* leaves the applied set as it was.
C20_GetColorByIndexOrder ==
    [][ (call'.op = "get_color") =>
          /\ seq_layers' = seq_layers
          /\ {i + 1 : i \in {seq_hist.order[n] : n \in 1 .. Len(seq_hist.order)}} = seq_layers
          /\ call'.color = Some(FoldAscending(seq_layers, call'.arg[1])) ]_vars

\* get_color on three or more layers added in another order than that of
\* their indices, where that order would give another colour
C20_Witness ==
    /\ call.op = "get_color"
    /\ Len(seq_hist.order) >= 3
    /\ \E n \in 1 .. (Len(seq_hist.order) - 1) : seq_hist.order[n] > seq_hist.order[n + 1]
    /\ call.color # Some(FoldInOrder(seq_hist.order, call.arg[1]))

\* C21: every index starts not applied; add(layer) marks layer.index applied
\* and returns True exactly when it was not applied, erase(layer) marks it
\* not applied and returns True exactly when it was applied; no other index
\* changes, so the same add (or erase) twice in a row returns False the
\* second time and changes nothing.
C21_AddEraseMarkIndex ==
    /\ Applied(seq_layers) = {}
    /\ [][ /\ (call'.op = "add") =>
                 /\ Applied(seq_layers') = Applied(seq_layers) \cup {call'.arg[1]}
                 /\ call'.ret = Some(call'.arg[1] \notin Applied(seq_layers))
           /\ (call'.op = "erase") =>
                 /\ Applied(seq_layers') = Applied(seq_layers) \ {call'.arg[1]}
                 /\ call'.ret = Some(call'.arg[1] \in Applied(seq_layers))
           /\ (call'.op \in {"add", "erase"} /\ call'.op = call.op /\ call'.arg = call.arg) =>
                 /\ call'.ret = Some(FALSE)
                 /\ seq_layers' = seq_layers ]_vars

\* an add of an applied index was refused while another index is applied too
C21_Witness ==
    /\ call.op = "add"
    /\ call.ret = Some(FALSE)
    /\ call.arg[1] \in Applied(seq_layers)
    /\ Applied(seq_layers) \ {call.arg[1]} # {}

----------------------------------------------------------------------------
(* Grid *)

\* grid.py lines 8-15
DRAW_STYLE_SET == "SET"

DRAW_STYLE_ADD == "ADD"

DRAW_STYLE_SEQUENCE == "SEQUENCE"

DRAW_STYLE_OPTIONS == {DRAW_STYLE_SET, DRAW_STYLE_ADD, DRAW_STYLE_SEQUENCE}

\* grid.py lines 17-19
DEFAULT_BRUSH_SIZE == 2

MAX_BRUSH == 5

MIN_BRUSH == 0

\* the draw styles a Grid is constructed with: the options and two others
DrawStyles == DRAW_STYLE_OPTIONS \cup {"set", "OTHER"}

\* a LayerStore object: its class, its identity and the fields of the three
\* classes as their constructors leave them, of which a class uses its own
LayerStore_new(kind, ref) ==
    [kind |-> kind, ref |-> ref, set |-> SetLayerStore_init, layers |-> <<>>,
     seq_layers |-> {}]

\* line 48: "if draw_style not in Grid.DRAW_STYLE_OPTIONS"
Grid_style_unknown_never(draw_style) == FALSE

Grid_style_unknown(draw_style) == draw_style \notin DRAW_STYLE_OPTIONS

\* lines 66-73: the class of the store a cell gets
Grid_store_kind(draw_style) ==
    IF draw_style = DRAW_STYLE_SET THEN "SetLayerStore"
    ELSE IF draw_style = DRAW_STYLE_ADD THEN "AdditiveLayerStore"
    ELSE "SequenceLayerStore"

\* lines 59-73: x rows of y cells, each cell a store constructed for it
Grid_cells(draw_style, x, y) ==
    [i \in 1 .. x |->
        [j \in 1 .. y |-> LayerStore_new(Grid_store_kind(draw_style), (i - 1) * y + j)]]

\* Grid.__init__(draw_style, x, y)
Grid_new(draw_style, x, y) ==
    /\ ~grid_obj.exists
    /\ IF Grid_style_unknown(draw_style)
       THEN /\ call' = Call("Grid", Some(<<draw_style, x, y>>), None, <<>>, FALSE, TRUE)
            /\ UNCHANGED grid_obj
       ELSE /\ grid_obj' = [exists |-> TRUE, brush_size |-> Some(DEFAULT_BRUSH_SIZE),
                            x |-> Some(x), y |-> Some(y),
                            grid |-> Grid_cells(draw_style, x, y)]
            /\ call' = Call("Grid", Some(<<draw_style, x, y>>), None, <<>>, FALSE, FALSE)

\* line 89: "if self.brush_size < Grid.MAX_BRUSH"
Grid_increase_guard_at_max(b) == b <= MAX_BRUSH

Grid_increase_guard(b) == b < MAX_BRUSH

Grid_increase_brush_size ==
    /\ grid_obj.exists
    /\ grid_obj' = IF Grid_increase_guard(grid_obj.brush_size[1])
                   THEN [grid_obj EXCEPT !.brush_size = Some(@[1] + 1)]
                   ELSE grid_obj
    /\ call' = Call("increase_brush_size", None, None, <<>>, FALSE, FALSE)

Grid_decrease_brush_size ==
    /\ grid_obj.exists
    /\ grid_obj' = IF grid_obj.brush_size[1] > MIN_BRUSH
                   THEN [grid_obj EXCEPT !.brush_size = Some(@[1] - 1)]
                   ELSE grid_obj
    /\ call' = Call("decrease_brush_size", None, None, <<>>, FALSE, FALSE)

\* layer_store.special() of a cell's store, by its class
LayerStore_special(store) ==
    IF store.kind = "SetLayerStore"
    THEN [store EXCEPT !.set = SetLayerStore_special(@)]
    ELSE IF store.kind = "AdditiveLayerStore"
    THEN [store EXCEPT !.layers = ALS_special_result(@)]
    ELSE [store EXCEPT !.seq_layers = SequenceLayerStore_special(@)]

\* lines 123-125: special() of every store of every row
Grid_obj_special ==
    /\ grid_obj.exists
    /\ grid_obj' = [grid_obj EXCEPT !.grid =
                       [i \in DOMAIN @ |-> [j \in DOMAIN @[i] |-> LayerStore_special(@[i][j])]]]
    /\ call' = Call("special", None, None, <<>>, FALSE, FALSE)

GridOthers == <<undoVars, replayVars, additiveVars, setVars, sequenceVars, grid>>

GridObj_new ==
    \E draw_style \in DrawStyles, x \in 1 .. MaxDim, y \in 1 .. MaxDim :
        Grid_new(draw_style, x, y) /\ UNCHANGED GridOthers

GridObj_increase_brush_size == Grid_increase_brush_size /\ UNCHANGED GridOthers

GridObj_decrease_brush_size == Grid_decrease_brush_size /\ UNCHANGED GridOthers

GridObj_special == Grid_obj_special /\ UNCHANGED GridOthers

InitGrid ==
    /\ UndoInit /\ ReplayInit /\ AdditiveInit /\ SetInit /\ SequenceInit /\ GridObjInit
    /\ grid = Grid_init
    /\ call = NoCall

NextGrid ==
    GridObj_new \/ GridObj_increase_brush_size \/ GridObj_decrease_brush_size \/ GridObj_special

SpecGrid == InitGrid /\ [][NextGrid]_vars

----------------------------------------------------------------------------
(* Claims about Grid *)

\* the stores of a Grid object, row by row
GridStores(g) ==
    {c \in (1 .. MaxDim) \X (1 .. MaxDim) :
        c[1] \in DOMAIN g.grid /\ c[2] \in DOMAIN g.grid[c[1]]}

\* C22: brush_size starts at 2 and stays within [0, 5]: increase adds exactly
\* 1 unless the size is 5, decrease subtracts exactly 1 unless the size is 0,
\* at the bound the call changes nothing, and neither call changes a cell's
\* LayerStore.
C22_BrushSizeClamped ==
    [][ /\ (call'.op = "Grid" /\ grid_obj'.exists) => grid_obj'.brush_size = Some(2)
        /\ grid_obj'.exists => grid_obj'.brush_size[1] \in 0 .. 5
        /\ (call'.op = "increase_brush_size") =>
              /\ grid_obj'.brush_size[1] =
                     IF grid_obj.brush_size[1] = 5 THEN 5 ELSE grid_obj.brush_size[1] + 1
              /\ grid_obj'.grid = grid_obj.grid
              /\ (grid_obj.brush_size[1] = 5) => grid_obj' = grid_obj
        /\ (call'.op = "decrease_brush_size") =>
              /\ grid_obj'.brush_size[1] =
                     IF grid_obj.brush_size[1] = 0 THEN 0 ELSE grid_obj.brush_size[1] - 1
              /\ grid_obj'.grid = grid_obj.grid
              /\ (grid_obj.brush_size[1] = 0) => grid_obj' = grid_obj ]_vars

\* increase was called and the brush of a grid of several cells is at its
\* largest size
C22_Witness ==
    /\ call.op = "increase_brush_size"
    /\ grid_obj.brush_size = Some(MAX_BRUSH)
    /\ Cardinality(GridStores(grid_obj)) >= 2

\* the class of LayerStore a recognized draw style asks for
VariantOf(draw_style) ==
    CASE draw_style = "SET" -> "SetLayerStore"
      [] draw_style = "ADD" -> "AdditiveLayerStore"
      [] draw_style = "SEQUENCE" -> "SequenceLayerStore"

\* C23: constructing a Grid with a draw style other than SET, ADD, SEQUENCE
\* raises before any cell or brush size exists; with a recognized style each
\* of the x*y cells holds one LayerStore of the matching class, an instance
\* of its own.
C23_GridConstruction ==
    [][ (call'.op = "Grid") =>
          LET draw_style == call'.arg[1][1]
              x == call'.arg[1][2]
              y == call'.arg[1][3]
          IN  IF draw_style \notin {"SET", "ADD", "SEQUENCE"}
              THEN /\ call'.raised
                   /\ ~grid_obj'.exists
                   /\ grid_obj'.brush_size = None
                   /\ grid_obj'.grid = <<>>
              ELSE /\ ~call'.raised
                   /\ grid_obj'.exists
                   /\ Len(grid_obj'.grid) = x
                   /\ \A i \in 1 .. x :
                         /\ Len(grid_obj'.grid[i]) = y
                         /\ \A j \in 1 .. y :
                               grid_obj'.grid[i][j].kind = VariantOf(draw_style)
                   /\ \A c, d \in GridStores(grid_obj') :
                         (c # d) => grid_obj'.grid[c[1]][c[2]].ref # grid_obj'.grid[d[1]][d[2]].ref ]_vars

\* a Grid of MaxDim by MaxDim AdditiveLayerStores was constructed
C23_Witness ==
    /\ call.op = "Grid"
    /\ ~call.raised
    /\ call.arg = Some(<<"ADD", MaxDim, MaxDim>>)
    /\ Cardinality(GridStores(grid_obj)) = MaxDim * MaxDim
    /\ \A c \in GridStores(grid_obj) : grid_obj.grid[c[1]][c[2]].kind = "AdditiveLayerStore"

----------------------------------------------------------------------------
(* More claims about UndoTracker *)

\* the actions a stack holds
Held(s) == {s[i] : i \in DOMAIN s}

\* every action the tracker holds is held once: by one stack, at one place
HeldOnce(a1, a2) ==
    \A i, j \in 1 .. (Len(a1) + Len(a2)) : (i # j) => (a1 \o a2)[i] # (a1 \o a2)[j]

\* C24 as stated: in every reachable state, under any sequence of
\* add_action, undo, redo and reset_redo calls, no action is in the actions
\* stack and in the undone_actions stack at the same time.
C24_NoActionInBothStacks == Held(actions) \cap Held(undone_actions) = {}

\* C24 as amended: the tracker starts holding nothing and, as long as
\* add_action is only given an action that neither stack holds, every call
\* leaves each action held at most once, so never by both stacks.
C24_NoActionInBothStacksIfAddedOnce ==
    /\ HeldOnce(actions, undone_actions)
    /\ [][ ( /\ HeldOnce(actions, undone_actions)
             /\ (call'.op = "add_action") =>
                   call'.arg[1] \notin (Held(actions) \cup Held(undone_actions)) )
           => /\ HeldOnce(actions', undone_actions')
              /\ Held(actions') \cap Held(undone_actions') = {} ]_vars

\* an undo moved one of two recorded actions: each stack holds one of them
C24_Witness ==
    /\ call.op = "undo"
    /\ actions # <<>>
    /\ undone_actions # <<>>
    /\ HeldOnce(actions, undone_actions)

\* C25: reset_redo empties undone_actions and leaves actions and the grid
\* unchanged, so a redo right after it returns None; add_action never
\* changes undone_actions, so a redo right after it still re-applies the
\* action undone last and takes it from undone_actions.
C25_ResetRedoAndAddActionFrame ==
    [][ /\ (call'.op = "reset_redo") =>
              /\ undone_actions' = <<>>
              /\ actions' = actions
              /\ grid' = grid
        /\ (call'.op = "redo" /\ call.op = "reset_redo") =>
              /\ call'.ret = None
              /\ call'.applied = <<>>
              /\ <<actions', undone_actions', grid'>> = <<actions, undone_actions, grid>>
        /\ (call'.op = "add_action") => undone_actions' = undone_actions
        /\ (call'.op = "redo" /\ call.op = "add_action" /\ undone_actions # <<>>) =>
              /\ call'.applied = << <<"redo_apply", Stack_peek(undone_actions)>> >>
              /\ undone_actions' = Stack_pop(undone_actions) ]_vars

\* reset_redo was called on a tracker that holds recorded actions
C25_Witness ==
    /\ call.op = "reset_redo"
    /\ undone_actions = <<>>
    /\ Len(actions) >= 2

\* C26: undo and redo follow stack order.  undo on a non-empty actions stack
\* returns the action on its top (the one added or redone last), reverses it
\* on the grid and puts it on top of undone_actions; redo does the same from
\* undone_actions back to actions, re-applying the action; on an empty stack
\* either returns None and changes neither stack nor the grid.  k undos after
\* k add_action calls on a fresh tracker therefore return the actions in
\* reverse order of addition, and k redos after them return the actions in
\* the order added and rebuild the actions stack.
C26_UndoRedoStackOrder ==
    [][ /\ (call'.op = "undo") =>
              IF actions = <<>>
              THEN /\ call'.ret = None
                   /\ <<actions', undone_actions', grid'>> = <<actions, undone_actions, grid>>
              ELSE /\ call'.ret = Some(Stack_peek(actions))
                   /\ grid' = PaintAction_undo_apply(Stack_peek(actions), grid)
                   /\ actions' = Stack_pop(actions)
                   /\ undone_actions' = Append(undone_actions, Stack_peek(actions))
        /\ (call'.op = "redo") =>
              IF undone_actions = <<>>
              THEN /\ call'.ret = None
                   /\ <<actions', undone_actions', grid'>> = <<actions, undone_actions, grid>>
              ELSE /\ call'.ret = Some(Stack_peek(undone_actions))
                   /\ grid' = PaintAction_redo_apply(Stack_peek(undone_actions), grid)
                   /\ undone_actions' = Stack_pop(undone_actions)
                   /\ actions' = Append(actions, Stack_peek(undone_actions)) ]_vars

----------------------------------------------------------------------------
(* More claims about ReplayTracker *)

\* C27: a play_next_action that finds the queue empty ends the replay:
\* replaying is false again and stays false until start_replay is called.
\* Meanwhile add_action still appends its entry and play_next_action returns
\* True, consumes nothing and applies nothing.  While replaying is true,
\* add_action appends at the tail and leaves replaying true, and
\* play_next_action plays the head, so an entry added during a replay is
\* played in that replay after the earlier ones.
C27_ReplayEndsWhenDrained ==
    [][ /\ (call'.op = "play_next_action" /\ start /\ queue = <<>>) =>
              /\ call'.ret = Some(TRUE)
              /\ ~start'
        /\ (~start /\ start') => call'.op = "start_replay"
        /\ (call'.op = "start_replay") => (start' /\ queue' = queue)
        /\ (call'.op = "add_action" /\ ~call'.raised) =>
              /\ queue' = Append(queue, call'.arg[1])
              /\ start' = start
        /\ (call'.op = "play_next_action" /\ ~start) =>
              /\ call'.ret = Some(TRUE)
              /\ queue' = queue
              /\ grid' = grid
              /\ call'.applied = <<>>
        /\ (call'.op = "play_next_action" /\ start /\ queue # <<>>) =>
              /\ call'.applied = << PlayOf(Head(queue)) >>
              /\ queue' = Tail(queue)
              /\ start' ]_vars

\* after a replay that played an entry and drained, entries were added and a
\* play left them in the queue
C27_Witness ==
    /\ call.op = "play_next_action"
    /\ call.ret = Some(TRUE)
    /\ hist.started
    /\ ~start
    /\ hist.playedLog # <<>>
    /\ Len(queue) >= 2

====
